---- MODULE Spec2Model ----
(***************************************************************************)
(* A model of LielAmar/Logger: the namespaced logger with per-severity     *)
(* files that rotate when the day changes.  Both variants of the source    *)
(* are modelled side by side:                                              *)
(*   "logger_ts" : src/src/logger.ts   (day-of-week marker, fire-and-      *)
(*                 forget compression, no logToFiles setting)              *)
(*   "part_000"  : src/unnamed/part_000 (day-of-month marker, awaited      *)
(*                 compression that ends and unlinks the old file)         *)
(* Strings are TLA+ strings; a log line is the sequence of the template's  *)
(* pieces after substitution.  The clock counts minutes since 1970-01-01   *)
(* 00:00 and local time is UTC.                                            *)
(***************************************************************************)
EXTENDS Integers, Sequences, FiniteSets, TLC

VARIABLES
  variant,      \* which source file the logger is built from
  awaited,      \* the caller awaits each logging call before the next one
  now,          \* the wall clock, in minutes since the epoch
  ticks,        \* number of clock advances so far
  logger,       \* the Logger instance: its private fields
  second,       \* a second Logger built on the same logsPath, or NoLogger
  dirs,         \* the directories that exist
  fs,           \* the directory entries: path -> inode
  inodes,       \* the files' contents: inode -> sequence of lines
  streams,      \* the WriteStreams created so far: handle -> [path, ino, ended]
  console,      \* what was handed to the console functions, in order
  calls,        \* the logging calls issued so far and where each one stands
  conts,        \* logger.ts: pending continuations of compressFiles
  jobs,         \* logger.ts: gzip jobs that were started and not awaited
  hist          \* history: what the rotations did (compressions, generations)

vars == <<variant, awaited, now, ticks, logger, second, dirs, fs, inodes,
          streams, console, calls, conts, jobs, hist>>

----------------------------------------------------------------------------
(* Bounds of the model *)

MaxCalls == 2
MaxTicks == 1

----------------------------------------------------------------------------
(* enum LogType: a numeric enum, so INFO = 0, WARN = 1, DEBUG = 2, ERROR = 3 *)

INFO == 0
WARN == 1
DEBUG == 2
ERROR == 3

LogType == {INFO, WARN, DEBUG, ERROR}

\* the textual names of the severities, as the specification writes them
SeverityName(type) ==
  CASE type = INFO -> "INFO"
    [] type = WARN -> "WARN"
    [] type = DEBUG -> "DEBUG"
    [] type = ERROR -> "ERROR"

\* the subdirectory loadFiles gives each severity
SeverityDir(type) ==
  CASE type = INFO -> "info"
    [] type = WARN -> "warn"
    [] type = DEBUG -> "debug"
    [] type = ERROR -> "error"

\* type.toString() of a numeric enum member: the decimal digits of its value
TypeToString(type) == ToString(type)

----------------------------------------------------------------------------
(* Date: the civil calendar behind getFullYear, getMonth, getDate, getDay,  *)
(* getHours, getMinutes and toISOString                                     *)

MinutesPerDay == 24 * 60

DayNumber(t) == t \div MinutesPerDay

\* days since the epoch -> <<year, month (1..12), day of month>>, by way of
\* the 400-year era, the day of the era (doe), the year of the era (yoe), the
\* day of the year counted from March 1 (doy) and the month from March (mp)
CivilFromMp(era, yoe, doy, mp) ==
  <<yoe + era * 400 + (IF mp < 10 THEN 0 ELSE 1),
    IF mp < 10 THEN mp + 3 ELSE mp - 9,
    doy - (153 * mp + 2) \div 5 + 1>>

CivilFromDoy(era, yoe, doy) == CivilFromMp(era, yoe, doy, (5 * doy + 2) \div 153)

CivilFromYoe(era, doe, yoe) ==
  CivilFromDoy(era, yoe, doe - (365 * yoe + yoe \div 4 - yoe \div 100))

CivilFromDoe(era, doe) ==
  CivilFromYoe(era, doe,
               (doe - doe \div 1460 + doe \div 36524 - doe \div 146096) \div 365)

CivilFromDays(z0) ==
  CivilFromDoe((z0 + 719468) \div 146097, (z0 + 719468) % 146097)

\* <<year, month (1..12), day of month>> -> days since the epoch
DaysFromCivil(y0, m, d) ==
  LET y   == IF m <= 2 THEN y0 - 1 ELSE y0
      era == y \div 400
      yoe == y - era * 400
      doy == (153 * (IF m > 2 THEN m - 3 ELSE m + 9) + 2) \div 5 + d - 1
      doe == yoe * 365 + yoe \div 4 - yoe \div 100 + doy
  IN  era * 146097 + doe - 719468

GetFullYear(t) == CivilFromDays(DayNumber(t))[1]
GetMonth(t)    == CivilFromDays(DayNumber(t))[2] - 1     \* 0-based
GetDate(t)     == CivilFromDays(DayNumber(t))[3]         \* day of the month
GetDay(t)      == (DayNumber(t) + 4) % 7                 \* day of the week, 0 = Sunday
GetHours(t)    == (t % MinutesPerDay) \div 60
GetMinutes(t)  == t % 60

\* the calendar date of an instant: year, month, day of the month
CalendarDate(t) == CivilFromDays(DayNumber(t))

\* the English month names, January first
MonthNames ==
  <<"January", "February", "March", "April", "May", "June", "July",
    "August", "September", "October", "November", "December">>

\* the month name a 0-based month index stands for
EnglishMonth(month) == MonthNames[month + 1]

\* parseMonth of src/src/logger.ts: the cases run from 2 to 12
ParseMonthLoggerTs(month) ==
  IF month \in 2..12 THEN MonthNames[month] ELSE "January"

\* parseMonth of src/unnamed/part_000: the cases run from 1 to 11
ParseMonthPart000(month) ==
  IF month \in 1..11 THEN MonthNames[month + 1] ELSE "January"

parseMonth(v, month) ==
  IF v = "logger_ts" THEN ParseMonthLoggerTs(month) ELSE ParseMonthPart000(month)

\* ('0' + number).slice(-2)
beautifyNumber(number) ==
  LET s == "0" \o ToString(number)
  IN  SubSeq(s, Len(s) - 1, Len(s))

\* new Date().toISOString(); the clock has no seconds
ToISOString(t) ==
  ToString(GetFullYear(t)) \o "-" \o beautifyNumber(GetMonth(t) + 1) \o "-"
    \o beautifyNumber(GetDate(t)) \o "T" \o beautifyNumber(GetHours(t)) \o ":"
    \o beautifyNumber(GetMinutes(t)) \o ":00.000Z"

getDate(t) == ToISOString(t)

\* the day the variant records as currentDay and puts in the file name
MarkerDay(v, t) == IF v = "logger_ts" THEN GetDay(t) ELSE GetDate(t)

----------------------------------------------------------------------------
(* The file system and the write streams *)

Join(a, b) == a \o "/" \o b

\* the four things loadFiles and the streams act on, as one value
World == [dirs |-> dirs, fs |-> fs, inodes |-> inodes, streams |-> streams]

\* fs.mkdirSync(p, { recursive: true }) of <logsPath>/<severity>/<year>/<month>
MkdirSync(w, logsPath, sev, year, month) ==
  [w EXCEPT !.dirs = @ \cup { logsPath,
                              Join(logsPath, sev),
                              Join(Join(logsPath, sev), year),
                              Join(Join(Join(logsPath, sev), year), month) }]

\* a createWriteStream that opens with flags "a": an existing file keeps its
\* content
CreateWriteStreamAppend(w, p, owner, type) ==
  LET ino == IF p \in DOMAIN w.fs THEN w.fs[p] ELSE Len(w.inodes) + 1
  IN  [w EXCEPT !.fs = [q \in DOMAIN w.fs \cup {p} |-> IF q = p THEN ino ELSE w.fs[q]],
                !.inodes = IF p \in DOMAIN w.fs THEN @ ELSE Append(@, << >>),
                !.streams = Append(@, [path |-> p, ino |-> ino, ended |-> FALSE,
                                       errored |-> FALSE, owner |-> owner,
                                       type |-> type])]

\* fs.createWriteStream(p, { flags: "w" }): an existing file is truncated, a
\* missing one is created; the new stream is the last of w.streams.  owner
\* and type only record who opened the stream and for which severity.
CreateWriteStream(w, p, owner, type) ==
  IF p \in DOMAIN w.fs
  THEN [w EXCEPT !.inodes[w.fs[p]] = << >>,
                 !.streams = Append(@, [path |-> p, ino |-> w.fs[p], ended |-> FALSE,
                                        errored |-> FALSE, owner |-> owner,
                                        type |-> type])]
  ELSE LET ino == Len(w.inodes) + 1
       IN  [w EXCEPT !.fs = [q \in DOMAIN w.fs \cup {p} |->
                               IF q = p THEN ino ELSE w.fs[q]],
                     !.inodes = Append(@, << >>),
                     !.streams = Append(@, [path |-> p, ino |-> ino, ended |-> FALSE,
                                            errored |-> FALSE, owner |-> owner,
                                            type |-> type])]

\* writeStream.write(chunk): appended to the stream's file; a write after
\* end() writes nothing and raises the stream's error
StreamWrite(w, h, chunk) ==
  IF w.streams[h].ended
  THEN [w EXCEPT !.streams[h].errored = TRUE]
  ELSE [w EXCEPT !.inodes[w.streams[h].ino] = Append(@, chunk)]

\* writeStream.end()
StreamEnd(w, h) == [w EXCEPT !.streams[h].ended = TRUE]

\* fs.unlink(p, () => {}): the directory entry goes, errors are ignored
Unlink(w, p) ==
  [w EXCEPT !.fs = [q \in DOMAIN w.fs \ {p} |-> w.fs[q]]]

\* the file a path names when a gzip opens it, 0 when there is none
InodeOf(w, p) == IF p \in DOMAIN w.fs THEN w.fs[p] ELSE 0

\* compressing.gzip.compressFile(src, src + ".gz") succeeding: the archive
\* holds the first n chunks of the file that src named when the gzip began
GzipInto(w, src, ino, n) ==
  LET w1 == CreateWriteStream(w, src \o ".gz", "gzip", 0)
      h  == Len(w1.streams)
  IN  [w1 EXCEPT !.inodes[w1.streams[h].ino] = SubSeq(w.inodes[ino], 1, n),
                 !.streams = w.streams]

----------------------------------------------------------------------------
(* The Logger class *)

\* private template: string = "[%date%] [%type%] [%namespace%] [%message%]"
DefaultTemplate ==
  <<"[", "%date%", "] [", "%type%", "] [", "%namespace%", "] [", "%message%", "]">>

\* an option of the settings record is "true", "false" or "undefined" (unset)
Truthy(x) == x = "true"

\* private settings = { logToFiles: true, logToConsole: true, logObjects: true }
\* (logger.ts calls them consoleLog and includeObjects and has no logToFiles)
DefaultSettings(v) ==
  [logToFiles   |-> IF v = "logger_ts" THEN "undefined" ELSE "true",
   logToConsole |-> "true",
   logObjects   |-> "true"]

NoFile == [filePath |-> "", fileName |-> "", writeStream |-> 0]

\* string.replace(/<placeholder>/g, value) on the pieces of a template
Replace(s, placeholder, value) ==
  [i \in DOMAIN s |-> IF s[i] = placeholder THEN value ELSE s[i]]

RECURSIVE Concat(_)
Concat(s) == IF s = << >> THEN "" ELSE Head(s) \o Concat(Tail(s))

assembleTemplate(lg, type, message, t) ==
  Concat(Replace(Replace(Replace(Replace(lg.template,
           "%date%", getDate(t)),
           "%type%", TypeToString(type)),
           "%namespace%", lg.namespace),
           "%message%", message))

\* JSON.stringify of the sample object { k: <number> }
JSONStringify(object) == "{\"k\":" \o ToString(object.k) \o "}"

\* the directory and the file name loadFiles derives from a date
LogDir(v, t) == Join(ToString(GetFullYear(t)), parseMonth(v, GetMonth(t)))

LogName(v, t) ==
  beautifyNumber(MarkerDay(v, t)) \o "-" \o beautifyNumber(GetHours(t)) \o "_"
    \o beautifyNumber(GetMinutes(t)) \o ".log"

LogPath(lg, type, v, t) == Join(Join(lg.logsPath, SeverityDir(type)), LogDir(v, t))

FullPath(file) == Join(file.filePath, file.fileName)

\* logFiles.set(type, { filePath, fileName, writeStream }) on the handle map
MapSet(lg, type, file) ==
  [lg EXCEPT !.logFiles = [x \in DOMAIN lg.logFiles \cup {type} |->
                             IF x = type THEN file ELSE lg.logFiles[x]]]

\* one logFiles.set(...) of loadFiles, with its createWriteStream: the new
\* stream is the one createWriteStream has just added
SetLogFile(r, type, logDir, logName) ==
  [logger |-> MapSet(r.logger, type,
                     [filePath    |-> Join(Join(r.logger.logsPath, SeverityDir(type)), logDir),
                      fileName    |-> logName,
                      writeStream |-> Len(r.world.streams) + 1]),
   world  |-> CreateWriteStream(r.world,
                Join(Join(Join(r.logger.logsPath, SeverityDir(type)), logDir), logName),
                r.logger.namespace, type)]

\* the four mkdirSync calls of loadFiles
MakeDirs(w, logsPath, year, month) ==
  MkdirSync(MkdirSync(MkdirSync(MkdirSync(w,
    logsPath, "info", year, month), logsPath, "warn", year, month),
    logsPath, "debug", year, month), logsPath, "error", year, month)

\* the four logFiles.set calls of loadFiles, in the order INFO, WARN, DEBUG, ERROR
OpenFiles(r, logDir, logName) ==
  SetLogFile(SetLogFile(SetLogFile(SetLogFile(r,
    INFO, logDir, logName), WARN, logDir, logName), DEBUG, logDir, logName),
    ERROR, logDir, logName)

\* loadFiles(date): the marker, the four directories, the four streams
loadFiles(lg, w, v, t) ==
  OpenFiles([logger |-> [lg EXCEPT !.currentDay = MarkerDay(v, t)],
             world  |-> MakeDirs(w, lg.logsPath, ToString(GetFullYear(t)),
                                 parseMonth(v, GetMonth(t)))],
            LogDir(v, t), LogName(v, t))

\* the settings record the constructor keeps: settings && (this.settings = settings)
ConstructorSettings(v, arg) ==
  IF arg.passed THEN arg.rec ELSE DefaultSettings(v)

\* constructor(namespace, logsPath, settings?, template?)
Constructor(v, w, namespace, logsPath, arg, template, t) ==
  LET lg == [namespace  |-> namespace,
             logsPath   |-> logsPath,
             template   |-> IF template # << >> THEN template ELSE DefaultTemplate,
             settings   |-> ConstructorSettings(v, arg),
             currentDay |-> 0,
             logFiles   |-> << >>]
  IN  loadFiles(lg, w, v, t)

----------------------------------------------------------------------------
(* The inputs the model draws from *)

Variants == {"logger_ts", "part_000"}

Namespace == "svc"
OtherNamespace == "peer"
LogsPath == "logs"

\* the logger is constructed on Monday 2026-01-05 at 10:00
StartInstant == DaysFromCivil(2026, 1, 5) * MinutesPerDay + 10 * 60

\* the clock advances by a minute, a day, a week or 31 days
Deltas == {1, MinutesPerDay, 7 * MinutesPerDay, 31 * MinutesPerDay}

Messages == {"boot"}

\* the optional object argument: absent, or { k: 1 }
NoObject == << >>
Objects == {NoObject, <<[k |-> 1]>>}

\* the optional settings argument: omitted, or a record that sets some options
OmittedSettings ==
  [passed |-> FALSE,
   rec |-> [logToFiles |-> "undefined", logToConsole |-> "undefined",
            logObjects |-> "undefined"]]

OnlyConsoleOff ==
  [passed |-> TRUE,
   rec |-> [logToFiles |-> "undefined", logToConsole |-> "false",
            logObjects |-> "undefined"]]

SettingsArgs == {OmittedSettings, OnlyConsoleOff}

----------------------------------------------------------------------------
(* The logging calls *)

ConsoleFunc(type) ==
  CASE type = INFO -> "console.info"
    [] type = WARN -> "console.warn"
    [] type = DEBUG -> "console.debug"
    [] type = ERROR -> "console.error"

\* logToConsole(func, templated, object)
logToConsole(lg, type, templated, object) ==
  [func   |-> ConsoleFunc(type),
   text   |-> templated,
   object |-> IF Truthy(lg.settings.logObjects) /\ object # NoObject
              THEN object ELSE NoObject]

\* what logToFile hands to writeStream.write
Chunk(lg, templated, object) ==
  IF Truthy(lg.settings.logObjects) /\ object # NoObject
  THEN templated \o "[" \o JSONStringify(object[1]) \o "]\n"
  ELSE templated \o "\n"

\* the first half of logToFile: the write to the severity's stream
WriteLine(lg, w, type, templated, object) ==
  IF type \in DOMAIN lg.logFiles
  THEN StreamWrite(w, lg.logFiles[type].writeStream, Chunk(lg, templated, object))
  ELSE w

\* a reloadFiles that tests the day of the week against a marker that holds
\* the day of the month
DayChangedMixed(lg, v, t) == GetDay(t) # lg.currentDay

\* the test of reloadFiles: newDate.getDate() !== this.currentDay (getDay in logger.ts)
DayChanged(lg, v, t) == MarkerDay(v, t) # lg.currentDay

\* whether the variant writes to the files at all
FileOutput(lg, v) == v = "logger_ts" \/ Truthy(lg.settings.logToFiles)

\* a caller whose await does not wait: every call counts as settled at once
SettledAtOnce(c) == c.pc \in {"resolved", "rejected", "file", "compress"}

\* the promise a logging method returned has settled
Settled(c) == c.pc \in {"resolved", "rejected"}

NoJob == [file |-> NoFile, ino |-> 0, startLen |-> 0]

\* compressFile up to the gzip: the LogFile the handle map holds now, the file
\* its path names now, and how much of it is surely there to read.  logToFile
\* does not wait for its writeStream.write (no callback, no drain), and the
\* gzip reads the file by its path through a stream of its own, so the line
\* written in the same turn may or may not have reached the file when the
\* gzip reads it: the callers pass the file system as it was before that write
StartGzip(lg, w, type) ==
  LET file == lg.logFiles[type]
      ino  == InodeOf(w, FullPath(file))
  IN  [file |-> file, ino |-> ino,
       startLen |-> IF ino = 0 THEN 0 ELSE Len(w.inodes[ino])]

\* what a gzip may have read of its source when it settles
ReadLens(w, job) ==
  IF job.ino = 0 THEN {} ELSE job.startLen .. Len(w.inodes[job.ino])

\* the moment the logger's current generation of files was opened
GenerationOpened == hist.opened[Len(hist.opened)]

NewCall(type, message, object, templated) ==
  [type |-> type, message |-> message, object |-> object, templated |-> templated,
   at |-> now, pc |-> "resolved", rotated |-> FALSE, newDate |-> 0,
   gen |-> 0, k |-> INFO, job |-> NoJob, old |-> << >>]

\* the call's record: a new call is appended (i = 0), a running one replaced
PutCall(i, c) == IF i = 0 THEN Append(calls, c) ELSE [calls EXCEPT ![i] = c]

SetWorld(w) ==
  /\ dirs' = w.dirs
  /\ fs' = w.fs
  /\ inodes' = w.inodes
  /\ streams' = w.streams

\* logger.ts, logToFile and reloadFiles in one synchronous run: the write, the
\* test, compressFile(INFO) (its gzip is started and not awaited), then
\* loadFiles(newDate); the rest of compressFiles is left as a continuation
LogToFileLoggerTs(c) ==
  LET w1 == WriteLine(logger, World, c.type, c.templated, c.object)
  IN  IF DayChanged(logger, variant, now)
      THEN LET r == loadFiles(logger, w1, variant, now)
           IN  /\ jobs' = Append(jobs, StartGzip(logger, World, INFO))
               /\ hist' = [hist EXCEPT
                             !.started = Append(@, FullPath(logger.logFiles[INFO])),
                             !.opened = Append(@, now)]
               /\ conts' = Append(conts, WARN)
               /\ logger' = r.logger
               /\ SetWorld(r.world)
               /\ calls' = Append(calls, [c EXCEPT !.rotated = TRUE, !.newDate = now,
                                                   !.gen = GenerationOpened,
                                                   !.old = logger.logFiles])
      ELSE /\ SetWorld(w1)
           /\ calls' = Append(calls, [c EXCEPT !.gen = GenerationOpened])
           /\ UNCHANGED <<logger, jobs, conts, hist>>

\* part_000, logToFile and reloadFiles up to the first await: the write, the
\* test, and compressFile(INFO) up to its await of the gzip
LogToFilePart000(c, i) ==
  LET w1 == WriteLine(logger, World, c.type, c.templated, c.object)
  IN  /\ SetWorld(w1)
      /\ UNCHANGED <<logger, jobs, conts>>
      /\ IF DayChanged(logger, variant, now)
         THEN /\ calls' = PutCall(i, [c EXCEPT !.pc = "compress", !.rotated = TRUE,
                                               !.newDate = now,
                                               !.gen = GenerationOpened,
                                               !.k = INFO,
                                               !.job = StartGzip(logger, World, INFO),
                                               !.old = logger.logFiles])
              /\ hist' = [hist EXCEPT !.started = Append(@, FullPath(logger.logFiles[INFO]))]
         ELSE /\ calls' = PutCall(i, [c EXCEPT !.pc = "resolved",
                                               !.gen = GenerationOpened])
              /\ UNCHANGED hist

\* info / warn / debug / error (message, object?) up to the first point where
\* the call gives up control
Log(type, message, object) ==
  /\ Len(calls) < MaxCalls
  /\ awaited => \A i \in DOMAIN calls : Settled(calls[i])
  /\ LET templated == assembleTemplate(logger, type, message, now)
         c == NewCall(type, message, object, templated)
         echo == Truthy(logger.settings.logToConsole)
     IN  /\ console' = IF echo
                       THEN Append(console, logToConsole(logger, type, templated, object))
                       ELSE console
         /\ IF variant = "logger_ts"
            THEN LogToFileLoggerTs(c)
            ELSE IF ~FileOutput(logger, variant)
            THEN /\ calls' = Append(calls, c)
                 /\ UNCHANGED <<logger, dirs, fs, inodes, streams, jobs, conts, hist>>
            ELSE IF echo
            THEN \* await this.logToConsole(...): logToFile runs in a later microtask
                 /\ calls' = Append(calls, [c EXCEPT !.pc = "file"])
                 /\ UNCHANGED <<logger, dirs, fs, inodes, streams, jobs, conts, hist>>
            ELSE LogToFilePart000(c, 0)
  /\ UNCHANGED <<variant, awaited, now, ticks, second>>

\* part_000: logToFile of a call that awaited its console output
FileStep(i) ==
  /\ calls[i].pc = "file"
  /\ LogToFilePart000(calls[i], i)
  /\ UNCHANGED <<variant, awaited, now, ticks, second, console>>

\* a microtask is queued: it runs before any I/O completes and before the
\* clock moves on
MicrotaskPending ==
  \/ conts # << >>
  \/ \E i \in DOMAIN calls : calls[i].pc = "file"

\* part_000: the gzip of compressFile(k) settles.  On success the old stream
\* is ended, the old file unlinked, and compressFiles goes on to the next
\* severity or, after ERROR, reloadFiles goes on to loadFiles(newDate).  On
\* failure compressFile rejects, compressFiles rethrows, and the rejection
\* passes through reloadFiles, logToFile and the logging method to the caller.
CompressDone(i, ok, n) ==
  LET c   == calls[i]
      src == FullPath(c.job.file)
      w1  == Unlink(StreamEnd(GzipInto(World, src, c.job.ino, n),
                              c.job.file.writeStream), src)
  IN  /\ c.pc = "compress"
      /\ ~MicrotaskPending
      /\ IF ok THEN n \in ReadLens(World, c.job) ELSE n = 0
      /\ IF ~ok
         THEN /\ calls' = [calls EXCEPT ![i].pc = "rejected"]
              /\ hist' = [hist EXCEPT !.failed = Append(@, src)]
              /\ UNCHANGED <<logger, dirs, fs, inodes, streams>>
         ELSE IF c.k # ERROR
         THEN /\ calls' = [calls EXCEPT ![i].k = c.k + 1,
                                        ![i].job = StartGzip(logger, w1, c.k + 1)]
              /\ hist' = [hist EXCEPT !.archived = Append(@, src),
                                      !.started = Append(@, FullPath(logger.logFiles[c.k + 1]))]
              /\ SetWorld(w1)
              /\ UNCHANGED logger
         ELSE LET r == loadFiles(logger, w1, variant, c.newDate)
              IN  /\ calls' = [calls EXCEPT ![i].pc = "resolved"]
                  /\ hist' = [hist EXCEPT !.archived = Append(@, src),
                                          !.opened = Append(@, c.newDate)]
                  /\ logger' = r.logger
                  /\ SetWorld(r.world)
      /\ UNCHANGED <<variant, awaited, now, ticks, second, console, conts, jobs>>

\* logger.ts: compressFiles resumes after an await and calls compressFile for
\* the next severity, which reads the handle map as it is now and starts a
\* gzip that nobody awaits
ContStep(i) ==
  LET k == conts[i]
  IN  /\ i \in DOMAIN conts
      /\ jobs' = Append(jobs, StartGzip(logger, World, k))
      /\ hist' = [hist EXCEPT !.started = Append(@, FullPath(logger.logFiles[k]))]
      /\ conts' = IF k # ERROR
                  THEN [conts EXCEPT ![i] = k + 1]
                  ELSE SubSeq(conts, 1, i - 1) \o SubSeq(conts, i + 1, Len(conts))
      /\ UNCHANGED <<variant, awaited, now, ticks, logger, second, dirs, fs, inodes,
                     streams, console, calls>>

\* logger.ts: the oldest gzip settles (they are served in the order they were
\* started); .then does nothing, .catch reports to the console
JobDone(ok, n) ==
  LET j   == Head(jobs)
      src == FullPath(j.file)
  IN  /\ jobs # << >>
      /\ ~MicrotaskPending
      /\ IF ok THEN n \in ReadLens(World, j) ELSE n = 0
      /\ jobs' = Tail(jobs)
      /\ IF ok
         THEN /\ SetWorld(GzipInto(World, src, j.ino, n))
              /\ hist' = [hist EXCEPT !.archived = Append(@, src)]
              /\ UNCHANGED console
         ELSE /\ console' = Append(console,
                              [func |-> "console.error",
                               text |-> "Couldn't compress file " \o j.file.filePath
                                          \o "/" \o j.file.fileName,
                               object |-> <<[error |-> "gzip"]>>])
              /\ hist' = [hist EXCEPT !.failed = Append(@, src)]
              /\ UNCHANGED <<dirs, fs, inodes, streams>>
      /\ UNCHANGED <<variant, awaited, now, ticks, logger, second, calls, conts>>

\* time passes
Tick(d) ==
  /\ ticks < MaxTicks
  /\ ~MicrotaskPending
  /\ now' = now + d
  /\ ticks' = ticks + 1
  /\ UNCHANGED <<variant, awaited, logger, second, dirs, fs, inodes, streams,
                 console, calls, conts, jobs, hist>>

\* new Logger(namespace, logsPath) once more, on the same logsPath
ConstructSecond ==
  /\ second = << >>
  /\ LET r == Constructor(variant, World, OtherNamespace, LogsPath, OmittedSettings,
                          << >>, now)
     IN  /\ second' = <<r.logger>>
         /\ SetWorld(r.world)
  /\ UNCHANGED <<variant, awaited, now, ticks, logger, console, calls, conts, jobs, hist>>

----------------------------------------------------------------------------

EmptyWorld == [dirs |-> {}, fs |-> << >>, inodes |-> << >>, streams |-> << >>]

\* logger.ts settles every call in the turn that issues it, so awaiting its
\* calls changes nothing and one value of awaited is kept for it
Init ==
  /\ variant \in Variants
  /\ awaited \in (IF variant = "logger_ts" THEN {TRUE} ELSE BOOLEAN)
  /\ now = StartInstant
  /\ ticks = 0
  /\ \E arg \in SettingsArgs :
       LET r == Constructor(variant, EmptyWorld, Namespace, LogsPath, arg, << >>, now)
       IN  /\ logger = r.logger
           /\ dirs = r.world.dirs
           /\ fs = r.world.fs
           /\ inodes = r.world.inodes
           /\ streams = r.world.streams
           /\ hist = [arg |-> arg, started |-> << >>, archived |-> << >>,
                      failed |-> << >>, opened |-> <<now>>]
  /\ second = << >>
  /\ console = << >>
  /\ calls = << >>
  /\ conts = << >>
  /\ jobs = << >>

Next ==
  \/ \E type \in LogType, message \in Messages, object \in Objects :
       Log(type, message, object)
  \/ \E i \in DOMAIN calls : FileStep(i)
  \/ \E i \in DOMAIN calls, ok \in BOOLEAN, n \in 0..MaxCalls : CompressDone(i, ok, n)
  \/ \E i \in DOMAIN conts : ContStep(i)
  \/ \E ok \in BOOLEAN, n \in 0..MaxCalls : JobDone(ok, n)
  \/ \E d \in Deltas : Tick(d)
  \/ ConstructSecond

Spec == Init /\ [][Next]_vars

----------------------------------------------------------------------------
(* part_000 with awaited calls, over a longer stretch of time: the clock goes
   from 2026-01-05 to 2026-01-06 and then to 2026-02-05, the next day whose
   day of the month is the one the logger was constructed on *)

Schedule == <<MinutesPerDay, 30 * MinutesPerDay>>

Advance ==
  /\ ticks < Len(Schedule)
  /\ ~MicrotaskPending
  /\ now' = now + Schedule[ticks + 1]
  /\ ticks' = ticks + 1
  /\ UNCHANGED <<variant, awaited, logger, second, dirs, fs, inodes, streams,
                 console, calls, conts, jobs, hist>>

InitAwaited == Init /\ variant = "part_000" /\ awaited = TRUE

NextScheduled ==
  \/ \E type \in LogType, message \in Messages, object \in Objects :
       Log(type, message, object)
  \/ \E i \in DOMAIN calls : FileStep(i)
  \/ \E i \in DOMAIN calls, ok \in BOOLEAN, n \in 0..MaxCalls : CompressDone(i, ok, n)
  \/ Advance

SpecScheduled == InitAwaited /\ [][NextScheduled]_vars

----------------------------------------------------------------------------
(* What the claims speak of *)

Range(f) == {f[x] : x \in DOMAIN f}

Count(seq, x) == Cardinality({k \in DOMAIN seq : seq[k] = x})

\* the call has done its write and its test of the day
PastCheck(c) == c.pc # "file" /\ FileOutput(logger, variant)

\* the rotation a call started is over: part_000 awaits it inside the call;
\* logger.ts leaves it to continuations and gzips that nobody awaits
RotationFinished(c) ==
  IF variant = "part_000" THEN c.pc = "resolved" ELSE conts = << >> /\ jobs = << >>

\* the path loadFiles derives for a severity from a date
DerivedPath(type, t) == Join(LogPath(logger, type, variant, t), LogName(variant, t))

\* the stream the handle map holds for a severity
MapStream(type) == streams[logger.logFiles[type].writeStream]

\* the streams the logger opened for a severity that are not ended
OpenHandles(type) ==
  {h \in DOMAIN streams : /\ streams[h].owner = Namespace
                          /\ streams[h].type = type
                          /\ ~streams[h].ended}

\* the line the specification describes: the template with the date, the
\* severity's textual name, the namespace and the message
SpecLine(lg, type, message, t) ==
  Concat(Replace(Replace(Replace(Replace(lg.template,
           "%date%", getDate(t)),
           "%type%", SeverityName(type)),
           "%namespace%", lg.namespace),
           "%message%", message))

\* what the specification has a call append: its line, then the bracketed
\* JSON of an attached object, then the newline
SpecChunks(c) ==
  { SpecLine(logger, c.type, c.message, c.at) \o "\n",
    SpecLine(logger, c.type, c.message, c.at) \o "[" \o
      (IF c.object = NoObject THEN "" ELSE JSONStringify(c.object[1])) \o "]\n" }

\* the place of the first x in a sequence that holds it
FirstIndex(seq, x) ==
  CHOOSE k \in DOMAIN seq : seq[k] = x /\ \A m \in 1..(k - 1) : seq[m] # x

\* the call's rotation has come to loadFiles(newDate): logger.ts calls it in
\* the turn of the call, part_000 before the call resolves
OpenedNewGeneration(c) ==
  c.rotated /\ (variant = "logger_ts" \/ c.pc = "resolved")

\* the file a call's line was written to: the one the handle map held for its
\* severity, whose path loadFiles derived when it opened that generation
WrittenPath(c) == DerivedPath(c.type, c.gen)

\* the rotation a call started has come to its end, with or without failure
RotationOver(c) ==
  IF variant = "part_000" THEN Settled(c) ELSE conts = << >> /\ jobs = << >>

\* how often a line stands in the file a path names
CountAt(p, line) == IF p \in DOMAIN fs THEN Count(inodes[fs[p]], line) ELSE 0

\* the calls whose write put the same line into the same file as call i
SameLine(i) ==
  {j \in DOMAIN calls :
     /\ PastCheck(calls[j])
     /\ WrittenPath(calls[j]) = WrittenPath(calls[i])
     /\ Chunk(logger, calls[j].templated, calls[j].object) =
          Chunk(logger, calls[i].templated, calls[i].object)}

\* the options a variant's settings record has
Options == IF variant = "logger_ts" THEN {"logToConsole", "logObjects"}
           ELSE {"logToFiles", "logToConsole", "logObjects"}

----------------------------------------------------------------------------
(* The claims *)

\* C1: when an awaited logging call with file output finds a day that differs
\* from the marker and every compression succeeds, then once its rotation is
\* over each severity's old file has a .gz next to it and the handle map holds
\* for that severity a newly opened file under the path derived from the new
\* date.  (Stated for both variants; logger.ts breaks it.)
C1_ArchivedAndReopened ==
  \A i \in DOMAIN calls :
    (/\ awaited
     /\ calls[i].rotated
     /\ RotationFinished(calls[i])
     /\ hist.failed = << >>
     /\ \A j \in DOMAIN calls : j > i => ~calls[j].rotated)
    => \A type \in LogType :
         /\ (FullPath(calls[i].old[type]) \o ".gz") \in DOMAIN fs
         /\ FullPath(logger.logFiles[type]) = DerivedPath(type, calls[i].newDate)
         /\ logger.logFiles[type].writeStream # calls[i].old[type].writeStream

\* C2: every awaited logging call with file output whose calendar date (year,
\* month, day of the month) differs from the calendar date at which the open
\* generation of files was opened triggers a rotation.
C2_EveryDateChangeRotates ==
  \A i \in DOMAIN calls :
    (/\ awaited
     /\ PastCheck(calls[i])
     /\ CalendarDate(calls[i].at) # CalendarDate(calls[i].gen))
    => calls[i].rotated

\* C3: in part_000, after a compression failed during a rotation, the new
\* generation's files are open for all four severities, the marker is the new
\* day, and every later call's line is in the new generation's file.
C3_FailureStillRotates ==
  variant = "part_000" =>
    \A i \in DOMAIN calls :
      calls[i].pc = "rejected" =>
        /\ logger.currentDay = MarkerDay(variant, calls[i].newDate)
        /\ \A type \in LogType :
             FullPath(logger.logFiles[type]) = DerivedPath(type, calls[i].newDate)
        /\ \A j \in DOMAIN calls :
             (j > i /\ PastCheck(calls[j])) =>
               /\ DerivedPath(calls[j].type, calls[i].newDate) \in DOMAIN fs
               /\ Chunk(logger, calls[j].templated, calls[j].object) \in
                    Range(inodes[fs[DerivedPath(calls[j].type, calls[i].newDate)]])

\* C4: in part_000, the promise a logging method returns never rejects.
C4_NeverRejects ==
  variant = "part_000" => \A i \in DOMAIN calls : calls[i].pc # "rejected"

\* C5: in part_000, with every call awaited and no compression failing, a call
\* rotates exactly when its day differs from the marker of the open
\* generation; no file is handed to the gzip twice, each old file of a
\* finished rotation was archived exactly once, exactly one generation of four
\* files was opened per finished rotation, and a later call on the same day
\* does not rotate again.
C5_OneRotationPerDayChange ==
  (variant = "part_000" /\ awaited /\ hist.failed = << >>) =>
    /\ \A i \in DOMAIN calls :
         PastCheck(calls[i]) =>
           (calls[i].rotated <=>
              MarkerDay(variant, calls[i].at) # MarkerDay(variant, calls[i].gen))
    /\ \A k \in DOMAIN hist.started : Count(hist.started, hist.started[k]) = 1
    /\ \A i \in DOMAIN calls :
         (calls[i].rotated /\ calls[i].pc = "resolved") =>
           \A type \in LogType :
             Count(hist.archived, FullPath(calls[i].old[type])) = 1
    /\ Len(hist.opened) - 1 =
         Cardinality({i \in DOMAIN calls : calls[i].rotated /\ calls[i].pc = "resolved"})
    /\ Cardinality({h \in DOMAIN streams : streams[h].owner = Namespace}) =
         4 * Len(hist.opened)
    /\ \A i, j \in DOMAIN calls :
         (i < j /\ PastCheck(calls[j]) /\ CalendarDate(calls[i].at) = CalendarDate(calls[j].at))
           => ~calls[j].rotated

\* C5's case: an awaited call rotated and finished, and a later call on the
\* same day is done
C5_Witness ==
  /\ variant = "part_000" /\ awaited /\ hist.failed = << >>
  /\ Len(calls) = 2
  /\ calls[1].rotated /\ calls[1].pc = "resolved"
  /\ calls[2].pc = "resolved" /\ calls[2].at = calls[1].at
  /\ Len(hist.archived) = 4
  /\ Len(hist.opened) = 2

\* C6: every line in a file of the logger is the template with %type%
\* replaced by the severity's textual name (INFO, WARN, DEBUG, ERROR), the
\* namespace and the message, followed by a newline.
C6_LinesNameTheSeverity ==
  \A h \in DOMAIN streams :
    streams[h].owner = Namespace =>
      \A k \in DOMAIN inodes[streams[h].ino] :
        \E i \in DOMAIN calls :
          /\ calls[i].type = streams[h].type
          /\ inodes[streams[h].ino][k] \in SpecChunks(calls[i])

\* C7: every option the settings argument leaves unset has its default value
\* true, and every option it sets keeps the given value.
C7_UnsetOptionsDefaultTrue ==
  \A opt \in Options :
    logger.settings[opt] =
      IF hist.arg.passed /\ hist.arg.rec[opt] # "undefined"
      THEN hist.arg.rec[opt]
      ELSE "true"

\* C8 as stated: a second logger constructed on the same base directory on
\* the same day as the earlier logger opened its files leaves each file the
\* earlier logger has open empty.
C8_SameDayTruncates ==
  [][(/\ second = << >>
      /\ second' # << >>
      /\ CalendarDate(now) = CalendarDate(GenerationOpened))
     => \A type \in LogType :
          ~MapStream(type).ended => inodes'[MapStream(type).ino] = << >>]_vars

\* C8 as amended: the second constructor empties exactly those open files of
\* the earlier logger whose path it derives again (same year, month name,
\* marker day, hour and minute); a file under another name keeps its lines.
C8_SamePathTruncates ==
  [][(second = << >> /\ second' # << >>)
     => \A type \in LogType :
          ~MapStream(type).ended =>
            IF FullPath(second'[1].logFiles[type]) = FullPath(logger.logFiles[type])
            THEN inodes'[MapStream(type).ino] = << >>
            ELSE inodes'[MapStream(type).ino] = inodes[MapStream(type).ino]]_vars

\* C8's case: a call wrote its line, no rotation took place, and the second
\* logger, built on the same paths, left the file of that severity empty
C8_Witness ==
  /\ second # << >>
  /\ Len(calls) = 1
  /\ calls[1].pc = "resolved" /\ ~calls[1].rotated
  /\ FileOutput(logger, variant)
  /\ ~MapStream(calls[1].type).ended
  /\ FullPath(second[1].logFiles[calls[1].type]) = FullPath(logger.logFiles[calls[1].type])
  /\ inodes[MapStream(calls[1].type).ino] = << >>

\* C9: the directory of every open file is <baseDir>/<severity>/<year>/<the
\* English name of the month in which the generation was opened>.
C9_DirectoryNamesTheMonth ==
  \A type \in DOMAIN logger.logFiles :
    logger.logFiles[type].filePath =
      Join(Join(LogsPath, SeverityDir(type)),
           Join(ToString(GetFullYear(GenerationOpened)),
                EnglishMonth(GetMonth(GenerationOpened))))

\* C10: at every moment, for each severity exactly one write handle opened by
\* the logger for that severity is open.
C10_OneOpenHandlePerSeverity ==
  \A type \in LogType : Cardinality(OpenHandles(type)) = 1

\* C11: within one rotation the old files are handed to the gzip in the order
\* INFO, WARN, DEBUG, ERROR, and when the rotation opens the new generation
\* (handle map and marker replaced) the compression of each of the four old
\* files has completed.  (Stated for both variants; logger.ts breaks it.)
C11_CompressAllThenOpen ==
  \A i \in DOMAIN calls :
    calls[i].rotated =>
      /\ \A a, b \in LogType :
           (a < b /\ FullPath(calls[i].old[b]) \in Range(hist.started)) =>
             /\ FullPath(calls[i].old[a]) \in Range(hist.started)
             /\ FirstIndex(hist.started, FullPath(calls[i].old[a])) <
                  FirstIndex(hist.started, FullPath(calls[i].old[b]))
      /\ OpenedNewGeneration(calls[i]) =>
           \A type \in LogType :
             FullPath(calls[i].old[type]) \in Range(hist.archived) \cup Range(hist.failed)

\* C12: every logging call with file output writes first and checks the day
\* afterwards: in the step in which a call detects the day change its line is
\* appended to the old generation's file of its severity, and no compression
\* of that file has started before; and in the step that opens a new
\* generation each of its four files is empty.
C12_WriteThenCheck ==
  [][/\ \A i \in DOMAIN calls' :
          (calls'[i].rotated /\ (i \notin DOMAIN calls \/ ~calls[i].rotated)) =>
            /\ FullPath(calls'[i].old[calls'[i].type]) \notin Range(hist.started)
            /\ FullPath(calls'[i].old[calls'[i].type]) \in DOMAIN fs
            /\ inodes'[fs[FullPath(calls'[i].old[calls'[i].type])]] =
                 Append(inodes[fs[FullPath(calls'[i].old[calls'[i].type])]],
                        Chunk(logger, calls'[i].templated, calls'[i].object))
     /\ Len(hist'.opened) > Len(hist.opened) =>
          \A type \in LogType :
            inodes'[fs'[FullPath(logger'.logFiles[type])]] = << >>]_vars

\* C13: in part_000, after a compression failed during the rotation of an
\* awaited call (the call rejected), no later call hands a file of that old
\* generation to the gzip again.
C13_NoRetryAfterFailure ==
  (variant = "part_000" /\ awaited) =>
    \A i, j \in DOMAIN calls :
      (i < j /\ calls[i].pc = "rejected") =>
        ~(/\ calls[j].rotated
          /\ \E type \in LogType :
               FullPath(calls[j].old[type]) = FullPath(calls[i].old[type]))

\* C14: in part_000 a rotation of one generation is carried through twice
\* only by calls the caller did not wait for, and then both calls saw the old
\* marker on the same changed day, the old INFO file was handed to the gzip
\* twice and archived twice, and two new generations were opened, the second
\* replacing the first in the handle map.  (That this happens is C14_Witness.)
C14_DuplicatedRotation ==
  variant = "part_000" =>
    \A i, j \in DOMAIN calls :
      (/\ i < j
       /\ calls[i].rotated /\ calls[i].pc = "resolved"
       /\ calls[j].rotated /\ calls[j].pc = "resolved"
       /\ calls[i].old = calls[j].old)
      => /\ ~awaited
         /\ MarkerDay(variant, calls[i].at) # MarkerDay(variant, calls[i].gen)
         /\ MarkerDay(variant, calls[j].at) # MarkerDay(variant, calls[j].gen)
         /\ calls[i].gen = calls[j].gen
         /\ Count(hist.started, FullPath(calls[i].old[INFO])) >= 2
         /\ Count(hist.archived, FullPath(calls[i].old[INFO])) >= 2
         /\ Len(hist.opened) >= 3
         /\ Cardinality({h \in DOMAIN streams : streams[h].owner = Namespace}) >= 12

\* C14's case: two calls that were not awaited, issued after the day changed,
\* both rotated the same old generation and both resolved: the old INFO file
\* went to the gzip twice and two generations were opened after the first
C14_Witness ==
  /\ variant = "part_000" /\ ~awaited
  /\ Len(calls) = 2
  /\ calls[1].rotated /\ calls[1].pc = "resolved"
  /\ calls[2].rotated /\ calls[2].pc = "resolved"
  /\ calls[1].old = calls[2].old
  /\ Count(hist.started, FullPath(calls[1].old[INFO])) = 2
  /\ Count(hist.archived, FullPath(calls[1].old[INFO])) = 2
  /\ Len(hist.opened) = 3

\* C15: at the end of a rotation, for each severity the old file is gone from
\* the disk and its write handle is ended if and only if a compression of
\* that file succeeded; an old file whose compression did not succeed is
\* still on disk.  (Stated for both variants; logger.ts breaks it.)
C15_RemovedIffArchived ==
  \A i \in DOMAIN calls :
    (calls[i].rotated /\ RotationOver(calls[i])) =>
      \A type \in LogType :
        (/\ FullPath(calls[i].old[type]) \notin DOMAIN fs
         /\ streams[calls[i].old[type].writeStream].ended)
        <=> FullPath(calls[i].old[type]) \in Range(hist.archived)

\* C16: in the step in which a logging call with file output for severity S
\* finds the day equal to the marker, exactly one line, the call's, is
\* appended to the file the handle map holds for S; every other file keeps
\* its content, and the handle map, the marker, the directory entries and the
\* handles stay as they are.
C16_SameDayCallFrame ==
  [][\A i \in DOMAIN calls' :
       (/\ FileOutput(logger, variant)
        /\ i \notin DOMAIN calls \/ calls[i].pc = "file"
        /\ calls'[i].pc # "file"
        /\ ~calls'[i].rotated
        /\ MarkerDay(variant, now) = logger.currentDay)
       => /\ FullPath(logger.logFiles[calls'[i].type]) \in DOMAIN fs
          /\ Len(inodes') = Len(inodes)
          /\ inodes'[fs[FullPath(logger.logFiles[calls'[i].type])]] =
               Append(inodes[fs[FullPath(logger.logFiles[calls'[i].type])]],
                      Chunk(logger, calls'[i].templated, calls'[i].object))
          /\ \A k \in DOMAIN inodes :
               k # fs[FullPath(logger.logFiles[calls'[i].type])] => inodes'[k] = inodes[k]
          /\ logger' = logger
          /\ fs' = fs
          /\ streams' = streams]_vars

\* C17: in part_000, whatever the calls, their interleaving and the outcomes
\* of the compressions, no call has written to a write handle after end() was
\* called on it.
C17_NoWriteAfterEnd ==
  variant = "part_000" =>
    \A h \in DOMAIN streams :
      streams[h].owner = Namespace => ~streams[h].errored

\* C18: in part_000, with every call awaited, no compression failing and no
\* other logger on the directory, every line written since construction is
\* kept: it stands, as often as it was written, in the file it was written to
\* as long as that file is on disk, and in that file's .gz afterwards.
C18_NoLineLost ==
  (variant = "part_000" /\ awaited /\ hist.failed = << >> /\ second = << >>) =>
    \A i \in DOMAIN calls :
      PastCheck(calls[i]) =>
        Cardinality(SameLine(i)) <=
          IF WrittenPath(calls[i]) \in DOMAIN fs
          THEN CountAt(WrittenPath(calls[i]),
                       Chunk(logger, calls[i].templated, calls[i].object))
          ELSE CountAt(WrittenPath(calls[i]) \o ".gz",
                       Chunk(logger, calls[i].templated, calls[i].object))

====
